---- MODULE Spec2Model ----
(***************************************************************************)
(* Model of the line-addressed editor, planning-with-files/edit_file.py.   *)
(*                                                                         *)
(* A text is a sequence of one-character strings.  The file on disk is a   *)
(* text; a document is the list of lines read_file returns for it.  One    *)
(* action models one whole invocation of main() with one action word.      *)
(***************************************************************************)
EXTENDS Integers, Sequences, FiniteSets, TLC

VARIABLES
    file,       \* the content of the target path (a text), <<>> while it is missing
    exists,     \* whether the target path exists
    argv,       \* sys.argv of the last invocation, <<>> before the first one
    stdin,      \* what the last invocation read from standard input
    old,        \* the content of the target path when the last invocation started
    lines,      \* main's local `lines` when the last invocation ended
    new_lines,  \* main's local `new_lines` when the last invocation ended
    stdout,     \* what the last invocation printed, as a list of pieces
    status,     \* exit status of the last invocation, -1 before the first one
    err,        \* the exception that ended the last invocation, "" for none
    procs,      \* two invocations running side by side: where each one is
    last_writer \* the one of them that wrote to the file last, 0 for none

vars == <<file, exists, argv, stdin, old, lines, new_lines, stdout, status, err,
          procs, last_writer>>

----------------------------------------------------------------------------
(* Bounds of the model.                                                    *)

MaxLines   == 3    \* lines of a document an invocation is started on
MaxLineLen == 1    \* characters of a line before its terminator
MaxText    == 2    \* characters of a supplied text
MaxArg     == 4    \* largest line number given on the command line
MaxNeg     == 1    \* smallest line number given is -MaxNeg
MaxPaste   == 5    \* characters of a text supplied to the empty document

----------------------------------------------------------------------------
(* Characters and texts.                                                   *)

NL == "\n"
CR == "\r"
Letters == {"a"}
Digits == <<"0", "1", "2", "3", "4", "5", "6", "7", "8", "9">>

Min(a, b) == IF a < b THEN a ELSE b
Max(a, b) == IF a > b THEN a ELSE b

Last(s) == s[Len(s)]

\* list + list over a list of lists: ''.join(lines), what writelines emits
RECURSIVE Concat(_)
Concat(ls) == IF ls = <<>> THEN <<>> ELSE Head(ls) \o Concat(Tail(ls))

\* str.endswith('\n')
EndsWithNL(s) == s # <<>> /\ Last(s) = NL

\* str.split('\n'): the fragments between newlines, always at least one
RECURSIVE Split(_)
Split(s) ==
    IF s = <<>> THEN << <<>> >>
    ELSE LET r == Split(Tail(s)) IN
         IF Head(s) = NL THEN << <<>> >> \o r
         ELSE << <<Head(s)>> \o Head(r) >> \o Tail(r)

\* Python's slice index: a negative index counts from the end, and an index
\* outside the list is clamped to it
SliceIndex(i, n) == IF i < 0 THEN Max(i + n, 0) ELSE Min(i, n)

\* seq[lo:hi]
Slice(seq, lo, hi) ==
    SubSeq(seq, SliceIndex(lo, Len(seq)) + 1, SliceIndex(hi, Len(seq)))

\* seq[:hi]
SliceTo(seq, hi) == Slice(seq, 0, hi)

\* seq[lo:]
SliceFrom(seq, lo) == Slice(seq, lo, Len(seq))

\* list.index(x): the 0-based position of the first element equal to x
ListIndex(seq, x) == CHOOSE i \in 0..(Len(seq) - 1) :
                        /\ seq[i + 1] = x
                        /\ \A j \in 0..(i - 1) : seq[j + 1] # x

\* [l + '\n' for l in seq]
RECURSIVE AddNL(_)
AddNL(seq) == IF seq = <<>> THEN <<>>
              ELSE << Head(seq) \o <<NL>> >> \o AddNL(Tail(seq))

----------------------------------------------------------------------------
(* Numbers on the command line and in the output.                          *)

DigitValue(c) == CHOOSE d \in 0..9 : Digits[d + 1] = c
IsDigit(c) == \E d \in 0..9 : Digits[d + 1] = c

RECURSIVE NatStr(_)
NatStr(n) == IF n < 10 THEN <<Digits[n + 1]>>
             ELSE NatStr(n \div 10) \o <<Digits[(n % 10) + 1]>>

\* str(n), f"{n}"
DecStr(n) == IF n < 0 THEN <<"-">> \o NatStr(-n) ELSE NatStr(n)

\* f"{n:4d}": right-aligned in a field of at least four characters
RECURSIVE PadLeft(_, _)
PadLeft(s, w) == IF Len(s) >= w THEN s ELSE PadLeft(<<" ">> \o s, w)
Fmt4d(n) == PadLeft(DecStr(n), 4)

Unsigned(tok) == IF tok # <<>> /\ Head(tok) \in {"-", "+"} THEN Tail(tok) ELSE tok

\* whether int(tok) returns (it raises ValueError otherwise)
IsInt(tok) == /\ Unsigned(tok) # <<>>
              /\ \A i \in 1..Len(Unsigned(tok)) : IsDigit(Unsigned(tok)[i])

RECURSIVE NatOf(_)
NatOf(ds) == IF ds = <<>> THEN 0
             ELSE 10 * NatOf(SubSeq(ds, 1, Len(ds) - 1)) + DigitValue(Last(ds))

\* int(tok)
IntOf(tok) == IF tok # <<>> /\ Head(tok) = "-" THEN 0 - NatOf(Unsigned(tok))
              ELSE NatOf(Unsigned(tok))

----------------------------------------------------------------------------
(* read_file and write_file.                                               *)

\* text-mode read: universal newlines turn "\r\n" and "\r" into "\n"
RECURSIVE Translate(_)
Translate(s) ==
    IF s = <<>> THEN <<>>
    ELSE IF Head(s) = CR
         THEN IF Len(s) > 1 /\ s[2] = NL THEN <<NL>> \o Translate(Tail(Tail(s)))
              ELSE <<NL>> \o Translate(Tail(s))
         ELSE <<Head(s)>> \o Translate(Tail(s))

\* f.readlines() over a text: each line keeps its "\n", the last may lack it
RECURSIVE SplitLines(_)
SplitLines(s) ==
    IF s = <<>> THEN <<>>
    ELSE LET r == SplitLines(Tail(s)) IN
         IF Head(s) = NL THEN << <<NL>> >> \o r
         ELSE IF r = <<>> THEN << <<Head(s)>> >>
         ELSE << <<Head(s)>> \o Head(r) >> \o Tail(r)

read_file(content) == SplitLines(Translate(content))

\* f.writelines(lines) on a file opened with 'w': the old content is gone,
\* the lines are written one after the other ("\n" is os.linesep here)
write_file(ls) == Concat(ls)

----------------------------------------------------------------------------
(* Text splitting, as each handler does it.                                *)

\* ReplaceSplit with the last fragment of an unterminated text forgotten
ReplaceSplitDropLast(new_content) ==
    AddNL(SliceTo(Split(new_content), -1))

\* ReplaceSplit with the empty fragment after a final newline kept as a line
ReplaceSplitKeepEmpty(new_content) ==
    LET parts == Split(new_content) IN
    IF ~EndsWithNL(new_content)
    THEN IF Last(parts) # <<>>
         THEN AddNL(SliceTo(parts, -1)) \o << Last(parts) \o <<NL>> >>
         ELSE AddNL(SliceTo(parts, -1))
    ELSE AddNL(parts)

\* replace, lines 43-47
ReplaceSplit(new_content) ==
    LET parts == Split(new_content) IN
    IF ~EndsWithNL(new_content)
    THEN IF Last(parts) # <<>>
         THEN AddNL(SliceTo(parts, -1)) \o << Last(parts) \o <<NL>> >>
         ELSE AddNL(SliceTo(parts, -1))
    ELSE AddNL(SliceTo(parts, -1))

\* insert, lines 57-58: the comprehension's condition reads the split list
KeptForInsert(parts) ==
    { i \in 1..Len(parts) :
        parts[i] # <<>> \/ ListIndex(parts, parts[i]) < Len(parts) - 1 }

RECURSIVE Filter(_, _, _)
Filter(seq, keep, i) ==
    IF i > Len(seq) THEN <<>>
    ELSE (IF i \in keep THEN <<seq[i]>> ELSE <<>>) \o Filter(seq, keep, i + 1)

\* InsertSplit with the last fragment left as it is, without a terminator
InsertSplitBareLast(new_content) ==
    LET parts == Split(new_content)
        kept  == Filter(parts, KeptForInsert(parts), 1)
    IN  IF kept = <<>> THEN <<>>
        ELSE AddNL(SliceTo(kept, -1)) \o << Last(kept) >>

\* InsertSplit with no fragment left out: every fragment becomes a line
InsertSplitKeepAll(new_content) == AddNL(Split(new_content))

\* InsertSplit with every empty fragment skipped (`if l` alone)
InsertSplitSkipEmpty(new_content) ==
    LET parts == Split(new_content) IN
    AddNL(Filter(parts, { i \in 1..Len(parts) : parts[i] # <<>> }, 1))

InsertSplit(new_content) ==
    LET parts == Split(new_content) IN
    AddNL(Filter(parts, KeptForInsert(parts), 1))

----------------------------------------------------------------------------
(* The inputs of an invocation.                                            *)

Chars == Letters \cup {NL}

\* all texts of at most n characters
RECURSIVE TextsUpTo(_)
TextsUpTo(n) ==
    IF n = 0 THEN { <<>> }
    ELSE LET shorter == TextsUpTo(n - 1) IN
         shorter \cup { t \o <<c>> : t \in shorter, c \in Chars }

Texts == TextsUpTo(MaxText)

\* the texts supplied to an invocation on content f: the longer ones go to the
\* empty document only
TextsFor(f, ex) == IF ex /\ f = <<>> THEN TextsUpTo(MaxPaste) ELSE Texts

\* a line before its terminator: letters only
Payloads == { t \in TextsUpTo(MaxLineLen) : \A i \in 1..Len(t) : t[i] # NL }

\* the documents an invocation is started on: at most MaxLines lines, each
\* newline-terminated except possibly the last
Docs ==
    LET term == { p \o <<NL>> : p \in Payloads }
        full(n) == { Concat(ls) : ls \in [1..n -> term] }
    IN  UNION { full(n) : n \in 0..MaxLines }
        \cup UNION { { d \o p : d \in full(n), p \in Payloads \ { <<>> } } :
                     n \in 0..(MaxLines - 1) }

\* the six-line document of the replace count scenario; its lines are
\* pairwise different where the scenario compares them
SixLines ==
    << <<"a", NL>>, <<"a", "a", NL>>, <<NL>>,
       <<"a", NL>>, <<"a", "a", "a", NL>>, <<"a", "a", NL>> >>

ScenarioDocs == { Concat(SixLines) }

\* documents written with "\r\n" line ends: all lines terminated, and the
\* last line bare
CrlfDocs ==
    { <<"a", CR, NL, "a", CR, NL>>, <<"a", CR, NL, "a">> }

\* the cap of the model: an invocation starts only on a document of at most
\* MaxLines lines of at most MaxLineLen characters, or on a scenario document
Bounded(f) ==
    LET ls == SplitLines(f) IN
    /\ Len(ls) <= MaxLines
    /\ \A i \in 1..Len(ls) :
          Len(ls[i]) <= MaxLineLen + (IF EndsWithNL(ls[i]) THEN 1 ELSE 0)
    /\ \A i \in 1..Len(f) : f[i] \in Chars

InScope == ~exists \/ Bounded(file) \/ file \in ScenarioDocs \cup CrlfDocs

Script == "edit_file.py"
Path == "f"

\* line-number arguments: decimal numbers, and one token that is no number
NumTokens == { DecStr(i) : i \in (0 - MaxNeg)..MaxArg } \cup { <<"x">> }

\* sys.argv[i]
Arg(av, i) == av[i + 1]

----------------------------------------------------------------------------
(* What an invocation leaves behind.                                       *)

Outcome(f, ex, si, ls, nl, out, st, e) ==
    [ file |-> f, exists |-> ex, stdin |-> si, lines |-> ls, new_lines |-> nl,
      stdout |-> out, status |-> st, err |-> e ]

\* an uncaught exception: the traceback goes to stderr, the exit status is 1
Raise(f, ex, ls, e) == Outcome(f, ex, <<>>, ls, <<>>, <<>>, 1, e)

\* UsageRun without the sys.exit(1): the usage text is printed, the status is 0
UsageRunExitsZero(f, ex) ==
    Outcome(f, ex, <<>>, <<>>, <<>>, <<"__doc__", NL>>, 0, "")

\* lines 23-25
UsageRun(f, ex) ==
    Outcome(f, ex, <<>>, <<>>, <<>>, <<"__doc__", NL>>, 1, "SystemExit")

\* the loop of lines 34-35 over enumerate(shown, start=i)
RECURSIVE ShowLoop(_, _)
ShowLoop(shown, i) ==
    IF shown = <<>> THEN <<>>
    ELSE Fmt4d(i) \o <<":", " ">> \o Head(shown) \o ShowLoop(Tail(shown), i + 1)

\* ShowRun that writes the shown lines back to the file
ShowRunWritesBack(f, ex, av) ==
    IF ~ex THEN Raise(f, ex, <<>>, "FileNotFoundError")
    ELSE LET ls == read_file(f) IN
    IF Len(av) > 3 /\ ~IsInt(Arg(av, 3)) THEN Raise(f, ex, ls, "ValueError")
    ELSE IF Len(av) > 4 /\ ~IsInt(Arg(av, 4)) THEN Raise(f, ex, ls, "ValueError")
    ELSE LET start == IF Len(av) > 3 THEN IntOf(Arg(av, 3)) - 1 ELSE 0
             end   == IF Len(av) > 4 THEN IntOf(Arg(av, 4)) ELSE Len(ls)
         IN  Outcome(write_file(Slice(ls, start, end)), ex, <<>>, ls, <<>>,
                     ShowLoop(Slice(ls, start, end), start + 1), 0, "")

\* lines 30-36
ShowRun(f, ex, av) ==
    IF ~ex THEN Raise(f, ex, <<>>, "FileNotFoundError")
    ELSE LET ls == read_file(f) IN
    IF Len(av) > 3 /\ ~IsInt(Arg(av, 3)) THEN Raise(f, ex, ls, "ValueError")
    ELSE IF Len(av) > 4 /\ ~IsInt(Arg(av, 4)) THEN Raise(f, ex, ls, "ValueError")
    ELSE LET start == IF Len(av) > 3 THEN IntOf(Arg(av, 3)) - 1 ELSE 0
             end   == IF Len(av) > 4 THEN IntOf(Arg(av, 4)) ELSE Len(ls)
         IN  Outcome(f, ex, <<>>, ls, <<>>,
                     ShowLoop(Slice(ls, start, end), start + 1), 0, "")

\* ReplaceSplice with `end` taken as the first line to drop, not the last
ReplaceSpliceKeepEnd(ls, start, end, nl) ==
    SliceTo(ls, start) \o nl \o SliceFrom(ls, end - 1)

\* ReplaceSplice with the 1-based start used as the slice bound
ReplaceSpliceKeepStart(ls, start, end, nl) ==
    SliceTo(ls, start + 1) \o nl \o SliceFrom(ls, end)

\* line 48
ReplaceSplice(ls, start, end, nl) == SliceTo(ls, start) \o nl \o SliceFrom(ls, end)

\* lines 38-51
ReplaceRun(f, ex, av, si) ==
    IF Len(av) <= 3 THEN Raise(f, ex, <<>>, "IndexError")
    ELSE IF ~IsInt(Arg(av, 3)) THEN Raise(f, ex, <<>>, "ValueError")
    ELSE IF Len(av) <= 4 THEN Raise(f, ex, <<>>, "IndexError")
    ELSE IF ~IsInt(Arg(av, 4)) THEN Raise(f, ex, <<>>, "ValueError")
    ELSE LET start == IntOf(Arg(av, 3)) - 1
             end   == IntOf(Arg(av, 4))
             read  == IF Len(av) > 5 THEN <<>> ELSE si
             new_content == IF Len(av) > 5 THEN Arg(av, 5) ELSE si
         IN
         IF ~ex THEN [Raise(f, ex, <<>>, "FileNotFoundError") EXCEPT !.stdin = read]
         ELSE LET nl == ReplaceSplit(new_content)
                  ls == ReplaceSplice(read_file(f), start, end, nl)
              IN  Outcome(write_file(ls), TRUE, read, ls, nl,
                          <<"Replaced lines ">> \o DecStr(start + 1) \o <<"-">>
                            \o DecStr(end) \o <<" with ">> \o DecStr(Len(nl))
                            \o <<" lines", NL>>,
                          0, "")

\* InsertSplice that puts the new lines before the given line, not after it
InsertSpliceBefore(ls, after_line, nl) ==
    SliceTo(ls, Max(after_line - 1, 0)) \o nl \o SliceFrom(ls, Max(after_line - 1, 0))

\* line 59
InsertSplice(ls, after_line, nl) ==
    SliceTo(ls, after_line) \o nl \o SliceFrom(ls, after_line)

\* InsertRun that takes a missing file for an empty document
InsertRunCreates(f, ex, av, si) ==
    IF Len(av) <= 3 THEN Raise(f, ex, <<>>, "IndexError")
    ELSE IF ~IsInt(Arg(av, 3)) THEN Raise(f, ex, <<>>, "ValueError")
    ELSE LET after_line == IntOf(Arg(av, 3))
             read  == IF Len(av) > 4 THEN <<>> ELSE si
             new_content == IF Len(av) > 4 THEN Arg(av, 4) ELSE si
             nl == InsertSplit(new_content)
             ls == InsertSplice(IF ex THEN read_file(f) ELSE <<>>, after_line, nl)
         IN  Outcome(write_file(ls), TRUE, read, ls, nl,
                     <<"Inserted ">> \o DecStr(Len(nl))
                       \o <<" lines after line ">> \o DecStr(after_line)
                       \o <<NL>>,
                     0, "")

\* lines 53-62
InsertRun(f, ex, av, si) ==
    IF Len(av) <= 3 THEN Raise(f, ex, <<>>, "IndexError")
    ELSE IF ~IsInt(Arg(av, 3)) THEN Raise(f, ex, <<>>, "ValueError")
    ELSE LET after_line == IntOf(Arg(av, 3))
             read  == IF Len(av) > 4 THEN <<>> ELSE si
             new_content == IF Len(av) > 4 THEN Arg(av, 4) ELSE si
         IN
         IF ~ex THEN [Raise(f, ex, <<>>, "FileNotFoundError") EXCEPT !.stdin = read]
         ELSE LET nl == InsertSplit(new_content)
                  ls == InsertSplice(read_file(f), after_line, nl)
              IN  Outcome(write_file(ls), TRUE, read, ls, nl,
                          <<"Inserted ">> \o DecStr(Len(nl))
                            \o <<" lines after line ">> \o DecStr(after_line)
                            \o <<NL>>,
                          0, "")

\* AppendRun that opens the file as read_file does: a missing file is an error
AppendRunNeedsFile(f, ex, av, si) ==
    LET read == IF Len(av) > 3 THEN <<>> ELSE si
        new_content == IF Len(av) > 3 THEN Arg(av, 3) ELSE si
    IN  IF ~ex THEN [Raise(f, ex, <<>>, "FileNotFoundError") EXCEPT !.stdin = read]
        ELSE Outcome(f \o new_content, TRUE, read, <<>>, <<>>,
                     <<"Appended content to ", Path, NL>>, 0, "")

\* AppendRun that terminates the appended text with a newline
AppendRunTerminates(f, ex, av, si) ==
    LET read == IF Len(av) > 3 THEN <<>> ELSE si
        new_content == IF Len(av) > 3 THEN Arg(av, 3) ELSE si
    IN  Outcome(f \o new_content \o (IF EndsWithNL(new_content) THEN <<>> ELSE <<NL>>),
                TRUE, read, <<>>, <<>>,
                <<"Appended content to ", Path, NL>>, 0, "")

\* lines 64-69: open(filepath, 'a') creates a missing file
AppendRun(f, ex, av, si) ==
    LET read == IF Len(av) > 3 THEN <<>> ELSE si
        new_content == IF Len(av) > 3 THEN Arg(av, 3) ELSE si
    IN  Outcome(f \o new_content, TRUE, read, <<>>, <<>>,
                <<"Appended content to ", Path, NL>>, 0, "")

\* DeleteSplice with `end` taken as a 0-based index of the last line to drop
DeleteSpliceEndInclusive(ls, start, end) == SliceTo(ls, start) \o SliceFrom(ls, end + 1)

\* DeleteSplice with `end` taken as the first line to keep
DeleteSpliceKeepEnd(ls, start, end) == SliceTo(ls, start) \o SliceFrom(ls, end - 1)

\* line 75
DeleteSplice(ls, start, end) == SliceTo(ls, start) \o SliceFrom(ls, end)

\* DeleteRun that reads the file before it parses its line numbers
DeleteRunReadFirst(f, ex, av) ==
    IF ~ex THEN Raise(f, ex, <<>>, "FileNotFoundError")
    ELSE LET read == read_file(f) IN
    IF Len(av) <= 3 THEN Raise(f, ex, read, "IndexError")
    ELSE IF ~IsInt(Arg(av, 3)) THEN Raise(f, ex, read, "ValueError")
    ELSE IF Len(av) <= 4 THEN Raise(f, ex, read, "IndexError")
    ELSE IF ~IsInt(Arg(av, 4)) THEN Raise(f, ex, read, "ValueError")
    ELSE LET start == IntOf(Arg(av, 3)) - 1
             end   == IntOf(Arg(av, 4))
             ls    == DeleteSplice(read, start, end)
         IN  Outcome(write_file(ls), TRUE, <<>>, ls, <<>>,
                     <<"Deleted lines ">> \o DecStr(start + 1) \o <<"-">>
                       \o DecStr(end) \o <<NL>>,
                     0, "")

\* lines 71-78
DeleteRun(f, ex, av) ==
    IF Len(av) <= 3 THEN Raise(f, ex, <<>>, "IndexError")
    ELSE IF ~IsInt(Arg(av, 3)) THEN Raise(f, ex, <<>>, "ValueError")
    ELSE IF Len(av) <= 4 THEN Raise(f, ex, <<>>, "IndexError")
    ELSE IF ~IsInt(Arg(av, 4)) THEN Raise(f, ex, <<>>, "ValueError")
    ELSE LET start == IntOf(Arg(av, 3)) - 1
             end   == IntOf(Arg(av, 4))
         IN
         IF ~ex THEN Raise(f, ex, <<>>, "FileNotFoundError")
         ELSE LET ls == DeleteSplice(read_file(f), start, end)
              IN  Outcome(write_file(ls), TRUE, <<>>, ls, <<>>,
                          <<"Deleted lines ">> \o DecStr(start + 1) \o <<"-">>
                            \o DecStr(end) \o <<NL>>,
                          0, "")

\* NoActionRun that treats an unknown action word as a usage error
NoActionRunUsage(f, ex) ==
    Outcome(f, ex, <<>>, <<>>, <<>>, <<"__doc__", NL>>, 1, "SystemExit")

\* no branch of main matches the action word: main returns None
NoActionRun(f, ex) == Outcome(f, ex, <<>>, <<>>, <<>>, <<>>, 0, "")

----------------------------------------------------------------------------
(* main: the dispatch on the number of arguments and the action word.      *)

\* lines 22-78
Main(f, ex, av, si) ==
    IF Len(av) < 3 THEN UsageRun(f, ex)
    ELSE IF Arg(av, 2) = "show" THEN ShowRun(f, ex, av)
    ELSE IF Arg(av, 2) = "replace" THEN ReplaceRun(f, ex, av, si)
    ELSE IF Arg(av, 2) = "insert" THEN InsertRun(f, ex, av, si)
    ELSE IF Arg(av, 2) = "append" THEN AppendRun(f, ex, av, si)
    ELSE IF Arg(av, 2) = "delete" THEN DeleteRun(f, ex, av)
    ELSE NoActionRun(f, ex)

\* the command lines of each action word
Rest0 == { <<>> }
Rest1 == { <<t>> : t \in NumTokens }
Rest2 == { <<t, u>> : t \in NumTokens, u \in NumTokens }

UsageArgvs   == { <<Script>>, <<Script, Path>> }
ShowArgvs    == { <<Script, Path, "show">> \o r : r \in Rest0 \cup Rest1 \cup Rest2 }
ReplaceArgvs(texts) ==
    { <<Script, Path, "replace">> \o r :
        r \in Rest0 \cup Rest1 \cup Rest2
              \cup { n \o <<t>> : n \in Rest2, t \in texts } }
InsertArgvs(texts) ==
    { <<Script, Path, "insert">> \o r :
        r \in Rest0 \cup Rest1 \cup { n \o <<t>> : n \in Rest1, t \in texts } }
AppendArgvs(texts) ==
    { <<Script, Path, "append">> \o r : r \in Rest0 \cup { <<t>> : t \in texts } }
DeleteArgvs  == { <<Script, Path, "delete">> \o r : r \in Rest0 \cup Rest1 \cup Rest2 }
OtherArgvs   == { <<Script, Path, "undo">> \o r : r \in Rest0 \cup Rest1 }

\* standard input is read only when the text argument is missing
StdinFor(av, textAt, texts) == IF Len(av) = textAt THEN texts ELSE { <<>> }

\* the two invocations that may run side by side, and one that has not begun
Procs == 1..2

NotStarted == [pc |-> "idle", argv |-> <<>>, buf |-> <<>>]

\* no invocation is running: the shell waits for the next command line
AtPrompt == argv = <<>>

\* one invocation, start to exit
Invoke(av, si) ==
    \E r \in { Main(file, exists, av, si) } :
    /\ argv' = av
    /\ old' = [exists |-> exists, content |-> file]
    /\ file' = r.file
    /\ exists' = r.exists
    /\ stdin' = r.stdin
    /\ lines' = r.lines
    /\ new_lines' = r.new_lines
    /\ stdout' = r.stdout
    /\ status' = r.status
    /\ err' = r.err
    /\ UNCHANGED <<procs, last_writer>>

UsageCmd ==
    /\ AtPrompt /\ InScope
    /\ \E av \in UsageArgvs : Invoke(av, <<>>)

ShowCmd ==
    /\ AtPrompt /\ InScope
    /\ \E av \in ShowArgvs : Invoke(av, <<>>)

ReplaceCmd ==
    /\ AtPrompt /\ InScope
    /\ \E texts \in { TextsFor(file, exists) } :
          \E av \in ReplaceArgvs(texts) : \E si \in StdinFor(av, 5, texts) :
             Invoke(av, si)

InsertCmd ==
    /\ AtPrompt /\ InScope
    /\ \E texts \in { TextsFor(file, exists) } :
          \E av \in InsertArgvs(texts) : \E si \in StdinFor(av, 4, texts) :
             Invoke(av, si)

AppendCmd ==
    /\ AtPrompt /\ InScope
    /\ \E texts \in { TextsFor(file, exists) } :
          \E av \in AppendArgvs(texts) : \E si \in StdinFor(av, 3, texts) :
             Invoke(av, si)

DeleteCmd ==
    /\ AtPrompt /\ InScope
    /\ \E av \in DeleteArgvs : Invoke(av, <<>>)

NoActionCmd ==
    /\ AtPrompt /\ InScope
    /\ \E av \in OtherArgvs : Invoke(av, <<>>)

\* the lines a delete took out of the document it read: lines[start:end]
Removed(content, av) ==
    Slice(read_file(content), IntOf(Arg(av, 3)) - 1, IntOf(Arg(av, 4)))

\* right after a delete that exited with status 0, the caller gives the text
\* of the removed lines back with an insert
ReinsertCmd ==
    /\ Len(argv) >= 3 /\ Arg(argv, 2) = "delete" /\ status = 0
    /\ \E t \in NumTokens :
          Invoke(<<Script, Path, "insert", t, Concat(Removed(old.content, argv))>>,
                 <<>>)

\* right after a show, the same command line is run once more
ShowAgainCmd ==
    /\ Len(argv) >= 3 /\ Arg(argv, 2) = "show"
    /\ Invoke(argv, <<>>)

\* the process is gone, and with it its locals and its output; the file stays
Exit ==
    /\ ~AtPrompt /\ status # -1
    /\ argv' = <<>>
    /\ stdin' = <<>>
    /\ old' = [exists |-> exists, content |-> file]
    /\ lines' = <<>>
    /\ new_lines' = <<>>
    /\ stdout' = <<>>
    /\ status' = -1
    /\ err' = ""
    /\ UNCHANGED <<file, exists, procs, last_writer>>

Init ==
    /\ \/ exists = TRUE /\ file \in Docs \cup ScenarioDocs \cup CrlfDocs
       \/ exists = FALSE /\ file = <<>>
    /\ argv = <<>>
    /\ stdin = <<>>
    /\ old = [exists |-> exists, content |-> file]
    /\ lines = <<>>
    /\ new_lines = <<>>
    /\ stdout = <<>>
    /\ status = -1
    /\ err = ""
    /\ procs = [p \in Procs |-> NotStarted]
    /\ last_writer = 0

Next == \/ UsageCmd
        \/ ShowCmd
        \/ ReplaceCmd
        \/ InsertCmd
        \/ AppendCmd
        \/ DeleteCmd
        \/ NoActionCmd
        \/ ReinsertCmd
        \/ ShowAgainCmd
        \/ Exit

Spec == Init /\ [][Next]_vars

----------------------------------------------------------------------------
(* write_file step by step: open(filepath, 'w') truncates the file, the    *)
(* text reaches it in chunks, close ends the write; the process may be     *)
(* killed between any two steps.                                           *)

\* the exit status of a process ended by SIGKILL, as the shell reports it
Killed == 137

EditArgvs(texts) == ReplaceArgvs(texts) \cup InsertArgvs(texts) \cup DeleteArgvs

\* the stdin a command line of replace or insert may read
EditStdin(av, texts) ==
    IF Arg(av, 2) = "replace" THEN StdinFor(av, 5, texts)
    ELSE IF Arg(av, 2) = "insert" THEN StdinFor(av, 4, texts)
    ELSE { <<>> }

\* an invocation is between open(filepath, 'w') and close
Writing == argv # <<>> /\ status = -1

\* a replace, insert or delete that raises before it reaches write_file
FailedEdit ==
    /\ AtPrompt /\ InScope
    /\ \E av \in EditArgvs(Texts) : \E si \in EditStdin(av, Texts) :
          /\ Main(file, exists, av, si).status # 0
          /\ Invoke(av, si)

\* line 19: the edit has read the file and built its lines; opening the file
\* for writing empties it
OpenForWrite ==
    /\ AtPrompt /\ InScope
    /\ \E av \in EditArgvs(Texts) : \E si \in EditStdin(av, Texts) :
       \E r \in { Main(file, exists, av, si) } :
          /\ r.status = 0
          /\ argv' = av
          /\ old' = [exists |-> exists, content |-> file]
          /\ file' = <<>>
          /\ exists' = TRUE
          /\ stdin' = r.stdin
          /\ lines' = r.lines
          /\ new_lines' = r.new_lines
          /\ stdout' = <<>>
          /\ status' = -1
          /\ err' = ""
          /\ UNCHANGED <<procs, last_writer>>

\* line 20: some more of the text reaches the file
WriteChunk ==
    /\ Writing
    /\ \E n \in (Len(file) + 1)..Len(write_file(lines)) :
          file' = SubSeq(write_file(lines), 1, n)
    /\ UNCHANGED <<exists, argv, stdin, old, lines, new_lines, stdout, status, err,
                   procs, last_writer>>

\* the end of the with block: all of the text is in the file; the edit
\* prints its message and exits
CloseFile ==
    /\ Writing
    /\ file = write_file(lines)
    /\ stdout' = Main(old.content, old.exists, argv, stdin).stdout
    /\ status' = 0
    /\ UNCHANGED <<file, exists, argv, stdin, old, lines, new_lines, err,
                   procs, last_writer>>

\* the process is killed inside write_file
Crash ==
    /\ Writing
    /\ status' = Killed
    /\ err' = "Killed"
    /\ UNCHANGED <<file, exists, argv, stdin, old, lines, new_lines, stdout,
                   procs, last_writer>>

NextCrash == \/ FailedEdit
             \/ OpenForWrite
             \/ WriteChunk
             \/ CloseFile
             \/ Crash
             \/ Exit

SpecCrash == Init /\ [][NextCrash]_vars

----------------------------------------------------------------------------
(* Two invocations on the same path at the same time.  Each one reads the  *)
(* file and builds its lines, opens the file for writing (which empties    *)
(* it), and on close hands its buffered text to the file in one write at   *)
(* its own file position 0; the steps of the two interleave freely.        *)

\* the command lines the two invocations are given
RaceTokens == { DecStr(1), DecStr(2) }
RaceTexts  == { <<>>, <<"a", NL>> }
RaceArgvs ==
    { <<Script, Path, "delete", t, u>> : t \in RaceTokens, u \in RaceTokens }
    \cup { <<Script, Path, "replace", t, u, x>> :
             t \in RaceTokens, u \in RaceTokens, x \in RaceTexts }
    \cup { <<Script, Path, "insert", t, x>> : t \in RaceTokens, x \in RaceTexts }

\* a write of buf at position 0 of a file holding content
WriteAtStart(content, buf) == buf \o SubSeq(content, Len(buf) + 1, Len(content))

\* lines 14-16 and the splice: the invocation reads the file as it is now and
\* builds the text it will write; an exception ends it before write_file
RaceRead ==
    \E p \in Procs :
    /\ procs[p].pc = "idle"
    /\ InScope
    /\ \E av \in RaceArgvs : \E r \in { Main(file, exists, av, <<>>) } :
          procs' = [procs EXCEPT ![p] =
                      [pc  |-> IF r.status = 0 THEN "ready" ELSE "failed",
                       argv |-> av,
                       buf |-> IF r.status = 0 THEN write_file(r.lines) ELSE <<>>]]
    /\ UNCHANGED <<file, exists, argv, stdin, old, lines, new_lines, stdout,
                   status, err, last_writer>>

\* line 19: open(filepath, 'w') empties the file
RaceOpen ==
    \E p \in Procs :
    /\ procs[p].pc = "ready"
    /\ file' = <<>>
    /\ exists' = TRUE
    /\ procs' = [procs EXCEPT ![p].pc = "open"]
    /\ UNCHANGED <<argv, stdin, old, lines, new_lines, stdout, status, err,
                   last_writer>>

\* line 20 and the end of the with block: the buffered lines go to the file
RaceClose ==
    \E p \in Procs :
    /\ procs[p].pc = "open"
    /\ file' = WriteAtStart(file, procs[p].buf)
    /\ procs' = [procs EXCEPT ![p].pc = "closed"]
    /\ last_writer' = p
    /\ UNCHANGED <<exists, argv, stdin, old, lines, new_lines, stdout, status, err>>

NextRace == \/ RaceRead
            \/ RaceOpen
            \/ RaceClose

SpecRace == Init /\ [][NextRace]_vars

----------------------------------------------------------------------------
(* What the properties speak about, read off the state an invocation left. *)

\* the document the last invocation read, and the one now on disk
D == read_file(old.content)
R == read_file(file)

\* the last invocation was `word` with its line numbers given as integers, on
\* an existing file
Ran(word, nums) ==
    /\ Len(argv) >= 3 + nums
    /\ Arg(argv, 2) = word
    /\ \A i \in 3..(2 + nums) : IsInt(Arg(argv, i))
    /\ old.exists

RanReplace == Ran("replace", 2)
RanInsert  == Ran("insert", 1)
RanDelete  == Ran("delete", 2)

\* the line numbers as the user gave them (1-based, end inclusive)
S == IntOf(Arg(argv, 3))
E == IntOf(Arg(argv, 4))
A == IntOf(Arg(argv, 3))

InRange == 1 <= S /\ S <= E /\ E <= Len(D)

\* the text supplied to replace or insert: the argument, else standard input
Text ==
    IF Arg(argv, 2) = "replace"
    THEN (IF Len(argv) > 5 THEN Arg(argv, 5) ELSE stdin)
    ELSE (IF Len(argv) > 4 THEN Arg(argv, 4) ELSE stdin)

CountNL(t) == Cardinality({ i \in 1..Len(t) : t[i] = NL })

AllTerminated(ls) == \A i \in 1..Len(ls) : EndsWithNL(ls[i])

----------------------------------------------------------------------------
(* C1 .. C10                                                               *)

\* C1: after Replace(s,e,text) or Delete(s,e) with 1 <= s <= e <= len(D), the
\* first s-1 lines of the written file are D[1..s-1] and its last len(D)-e
\* lines are D[e+1..len(D)].
C1_FrameOutsideRange ==
    ((RanReplace \/ RanDelete) /\ InRange) =>
        /\ status = 0
        /\ Len(R) >= (S - 1) + (Len(D) - E)
        /\ SubSeq(R, 1, S - 1) = SubSeq(D, 1, S - 1)
        /\ SubSeq(R, Len(R) - (Len(D) - E) + 1, Len(R)) = SubSeq(D, E + 1, Len(D))

C1_Witness ==
    /\ RanDelete /\ InRange
    /\ S = 2 /\ E = 2 /\ Len(D) = 3 /\ D[1] # D[3]

\* C2: Insert(a, text) with 0 <= a <= len(D) writes D[1..a], then the lines of
\* the text, then D[a+1..len(D)]: the new lines sit right after original line
\* a, and every original line is written unchanged and in order.
C2_InsertAfterLine ==
    (RanInsert /\ 0 <= A /\ A <= Len(D)) =>
        /\ status = 0
        /\ lines = SubSeq(D, 1, A) \o new_lines \o SubSeq(D, A + 1, Len(D))
        /\ file = Concat(SubSeq(D, 1, A)) \o Concat(new_lines)
                    \o Concat(SubSeq(D, A + 1, Len(D)))

C2_Witness ==
    /\ RanInsert /\ A = 0 /\ Len(D) = 2 /\ Len(new_lines) = 1
    /\ new_lines[1] # D[1]

\* C3: Replace(s,e,text) with 1 <= s <= e <= len(D) writes exactly D[1..s-1],
\* then the lines of the text, then D[e+1..len(D)], so the result has
\* len(D) - (e-s+1) + k lines, k the number of lines the text is split into.
C3_ReplaceExact ==
    (RanReplace /\ InRange) =>
        /\ status = 0
        /\ lines = SubSeq(D, 1, S - 1) \o new_lines \o SubSeq(D, E + 1, Len(D))
        /\ file = Concat(lines)
        /\ R = lines
        /\ Len(R) = Len(D) - (E - S + 1) + Len(new_lines)

C3_Witness ==
    /\ RanReplace /\ InRange
    /\ S = 2 /\ E = 3 /\ Len(D) = 3 /\ Len(new_lines) = 1 /\ new_lines[1] # D[1]

\* the replace count scenario: lines [2,4] of a six-line document replaced by
\* a two-line block
SixLineScenario ==
    /\ RanReplace /\ S = 2 /\ E = 4 /\ Len(D) = 6 /\ Len(new_lines) = 2

\* C4 as stated: in the scenario, line 1 of the result is original line 1 and
\* lines 3..5 of the result are original lines 5..6.
C4_AsStated ==
    SixLineScenario =>
        /\ R[1] = D[1]
        /\ Len(R) >= 5
        /\ SubSeq(R, 3, 5) = SubSeq(D, 5, 6)

\* C4 amended: in the scenario the result has five lines, line 1 is original
\* line 1, lines 2..3 are the block, and lines 4..5 are original lines 5..6.
C4_ScenarioTail ==
    SixLineScenario =>
        /\ Len(R) = 5
        /\ R[1] = D[1]
        /\ SubSeq(R, 2, 3) = new_lines
        /\ SubSeq(R, 4, 5) = SubSeq(D, 5, 6)

C4_Witness ==
    /\ SixLineScenario /\ status = 0
    /\ D[5] # D[6] /\ R[3] # D[5] /\ R[3] # D[6]

\* C5: Delete(s,e) with 1 <= s <= e <= len(D) writes exactly D[1..s-1] then
\* D[e+1..len(D)]: nothing is added and len(D) - (e-s+1) lines remain.
C5_DeleteExact ==
    (RanDelete /\ InRange) =>
        /\ status = 0
        /\ new_lines = <<>>
        /\ lines = SubSeq(D, 1, S - 1) \o SubSeq(D, E + 1, Len(D))
        /\ file = Concat(lines)
        /\ R = lines
        /\ Len(R) = Len(D) - (E - S + 1)

C5_Witness ==
    /\ RanDelete /\ InRange
    /\ S = 1 /\ E = 1 /\ Len(D) = 3 /\ D[1] # D[2] /\ R = SubSeq(D, 2, 3)

\* C6 as stated: when Delete(s,e), 1 <= s <= e <= len(D), on a document D whose
\* lines are all newline-terminated is followed by Insert(s-1, the text of
\* D[s..e]), the file is D again.
C6_RoundTrip ==
    [][ ( /\ RanDelete /\ InRange /\ AllTerminated(D)
          /\ Len(argv') = 5
          /\ Arg(argv', 2) = "insert"
          /\ IsInt(Arg(argv', 3))
          /\ IntOf(Arg(argv', 3)) = S - 1
          /\ Arg(argv', 4) = Concat(SubSeq(D, S, E)) )
        => file' = old.content ]_vars

C9_InsertTerminatedText ==
    (RanInsert /\ status = 0 /\ EndsWithNL(Text)) =>
        /\ Len(new_lines) = CountNL(Text)
        /\ AllTerminated(new_lines)

\* C10: Replace splits a text that ends with a newline into as many lines as
\* the text has newlines, all terminated, with no extra empty line at the end.
C10_ReplaceTerminatedText ==
    (RanReplace /\ status = 0 /\ EndsWithNL(Text)) =>
        /\ Len(new_lines) = CountNL(Text)
        /\ AllTerminated(new_lines)
        /\ Concat(new_lines) = Text

C10_Witness ==
    /\ RanReplace /\ status = 0
    /\ EndsWithNL(Text) /\ CountNL(Text) = 3 /\ Len(Text) = 5
    /\ Len(new_lines) = 3

----------------------------------------------------------------------------
(* C11 .. C20                                                              *)

\* what follows the last newline of a text (the whole text if it has none)
FinalFragment(t) ==
    LET nls == { i \in 1..Len(t) : t[i] = NL }
        from == IF nls = {} THEN 1
                ELSE (CHOOSE i \in nls : \A j \in nls : j <= i) + 1
    IN  SubSeq(t, from, Len(t))

\* C11: for a non-empty text with k newlines that does not end with a newline,
\* Replace and Insert both produce exactly k+1 lines, and the last of them
\* carries the final fragment of the text.
C11_NoFinalLineDropped ==
    ((RanReplace \/ RanInsert) /\ status = 0 /\ Text # <<>> /\ ~EndsWithNL(Text)) =>
        /\ Len(new_lines) = CountNL(Text) + 1
        /\ FinalFragment(Text) # <<>>
        /\ SubSeq(Last(new_lines), 1, Len(FinalFragment(Text))) = FinalFragment(Text)
        /\ Len(Last(new_lines)) <= Len(FinalFragment(Text)) + 1

C11_Witness ==
    /\ RanInsert /\ status = 0
    /\ Text = <<NL, "a">>
    /\ Len(new_lines) = 2 /\ new_lines[1] = <<NL>>

\* C12: show never changes the file, whatever its arguments, and show run a
\* second time with the same arguments prints what it printed the first time.
C12_ShowIdempotent ==
    [][ (Len(argv') >= 3 /\ Arg(argv', 2) = "show") =>
            /\ file' = file
            /\ exists' = exists
            /\ (argv' = argv => (stdout' = stdout /\ status' = status /\ err' = err))
      ]_vars

C12_Witness ==
    /\ Len(argv) = 5 /\ Arg(argv, 2) = "show" /\ status = 0
    /\ Len(lines) = 3 /\ Len(stdout) > Len(file)
    /\ file = old.content /\ file # <<>>

\* show with integer line numbers (or none) on an existing file, and the
\* 1-based range it was asked for
RanShow ==
    /\ Len(argv) >= 3 /\ Arg(argv, 2) = "show"
    /\ \A i \in 3..(Len(argv) - 1) : IsInt(Arg(argv, i))
    /\ old.exists

ShowStart == IF Len(argv) > 3 THEN IntOf(Arg(argv, 3)) ELSE 1
ShowEnd   == IF Len(argv) > 4 THEN IntOf(Arg(argv, 4)) ELSE Len(D)

\* lines first..last of ls, each behind its own right-aligned position
RECURSIVE Numbered(_, _, _)
Numbered(ls, first, last) ==
    IF first > last THEN <<>>
    ELSE Fmt4d(first) \o <<":", " ">> \o ls[first] \o Numbered(ls, first + 1, last)

\* C13: show(start, end) with start >= 1 prints exactly the lines at positions
\* start..min(end, len(D)), in order, each prefixed with its position and
\* otherwise unmodified; start defaults to 1, end to len(D); nothing is
\* printed when end < start.
C13_ShowPrintsRange ==
    (RanShow /\ ShowStart >= 1) =>
        /\ status = 0
        /\ stdout = Numbered(D, ShowStart, Min(ShowEnd, Len(D)))

\* append, and the text it was given: the argument, else standard input
RanAppend == Len(argv) >= 3 /\ Arg(argv, 2) = "append"

AppendText == IF Len(argv) > 3 THEN Arg(argv, 3) ELSE stdin

\* C14: append leaves the old content in place and writes the supplied text
\* right behind it, verbatim: it is not split into lines, no terminator is
\* added or removed, and the document is not read.
C14_AppendVerbatim ==
    RanAppend =>
        /\ status = 0
        /\ exists
        /\ file = old.content \o AppendText
        /\ lines = <<>>
        /\ new_lines = <<>>

C14_Witness ==
    /\ RanAppend /\ old.exists
    /\ old.content # <<>> /\ ~EndsWithNL(old.content)
    /\ AppendText = <<NL, "a">>
    /\ file = old.content \o <<NL, "a">>

\* the written lines are the old ones with new_lines put in at one point
InsertedAtSomePoint ==
    \E k \in 0..Len(D) :
        lines = SubSeq(D, 1, k) \o new_lines \o SubSeq(D, k + 1, Len(D))

\* C15: a replace or delete whose end is smaller than its start is rejected,
\* or has no effect on the existing lines: none is removed, duplicated or
\* reordered, and for delete the file is unchanged.
C15_EmptyRangeHarmless ==
    ((RanReplace \/ RanDelete) /\ E < S) =>
        \/ status # 0 /\ file = old.content
        \/ status = 0 /\ RanDelete /\ file = old.content
        \/ status = 0 /\ RanReplace /\ InsertedAtSomePoint /\ file = Concat(lines)

\* C16: show, replace and delete given a start line smaller than 1 fail, and
\* the file is left unchanged.
C16_StartBelowOneRejected ==
    (\/ RanShow /\ Len(argv) > 3 /\ ShowStart < 1
     \/ (RanReplace \/ RanDelete) /\ S < 1) =>
        /\ status # 0
        /\ file = old.content

\* C17: replace and delete given an end line greater than the number of lines
\* of the document fail, and the file is left unchanged.
C17_EndBeyondLastRejected ==
    ((RanReplace \/ RanDelete) /\ E > Len(D)) =>
        /\ status # 0
        /\ file = old.content

\* what the edit writes when nothing interrupts it
NewContent == Main(old.content, old.exists, argv, stdin).file

\* C18: once a replace, insert or delete has ended, by its own exit, by a
\* failure or by a kill during the write, the file holds the complete prior
\* content or the complete new content.
C18_AllOrNothing ==
    (~AtPrompt /\ status # -1) => (file = old.content \/ file = NewContent)

\* the action word of the last invocation
Word == IF Len(argv) >= 3 THEN Arg(argv, 2) ELSE ""

\* a line-number argument the edit parses is not an integer
NonIntegerArg ==
    \/ /\ Word \in {"replace", "delete"}
       /\ \/ Len(argv) >= 4 /\ ~IsInt(Arg(argv, 3))
          \/ Len(argv) >= 5 /\ ~IsInt(Arg(argv, 4))
    \/ Word = "insert" /\ Len(argv) >= 4 /\ ~IsInt(Arg(argv, 3))

\* C19: a non-integer line number given to replace, insert or delete makes
\* the invocation exit with a non-zero status before the file is read or
\* written: the file is as it was, whether it existed or not.
C19_NonIntegerFailsEarly ==
    NonIntegerArg =>
        /\ status # 0
        /\ err = "ValueError"
        /\ file = old.content
        /\ exists = old.exists
        /\ lines = <<>>
        /\ stdout = <<>>

C19_Witness ==
    /\ Word = "delete" /\ Len(argv) = 5
    /\ IsInt(Arg(argv, 3)) /\ Arg(argv, 4) = <<"x">>
    /\ old.exists /\ Len(D) = 2
    /\ status = 1

\* the command line gives the action every line number it needs, as integers
WellFormed ==
    \/ Word = "show" /\ \A i \in 3..(Len(argv) - 1) : IsInt(Arg(argv, i))
    \/ Word \in {"replace", "delete"} /\ Len(argv) >= 5
          /\ IsInt(Arg(argv, 3)) /\ IsInt(Arg(argv, 4))
    \/ Word = "insert" /\ Len(argv) >= 4 /\ IsInt(Arg(argv, 3))

\* C20: on a path that does not exist show, replace, insert and delete exit
\* with a non-zero status and create no file; a command line with proper line
\* numbers fails with the I/O error of the missing file.
C20_MissingFileFails ==
    (Word \in {"show", "replace", "insert", "delete"} /\ ~old.exists) =>
        /\ status # 0
        /\ ~exists
        /\ file = <<>>
        /\ stdout = <<>>
        /\ (WellFormed => err = "FileNotFoundError")

C20_Witness ==
    /\ Word = "insert" /\ ~old.exists /\ WellFormed
    /\ A = 0 /\ Len(argv) = 5 /\ Text = <<"a", NL>>
    /\ status = 1 /\ ~exists

----------------------------------------------------------------------------
(* C21 .. C30                                                              *)

\* the lines of a file as they are on disk, each with the terminator it has
\* there ("\n", "\r\n", or none on the last line)
OnDisk(content) == SplitLines(content)

\* a replace, insert or delete with its line numbers inside the document, and
\* the number of lines before and behind the place it edits
EditInRange ==
    \/ (RanReplace \/ RanDelete) /\ InRange
    \/ RanInsert /\ 0 <= A /\ A <= Len(D)

Before == IF Word = "insert" THEN A ELSE S - 1
Behind == IF Word = "insert" THEN Len(D) - A ELSE Len(D) - E

\* C21: after a replace, insert or delete every untouched line is on disk
\* byte for byte as it was before the edit, its terminator ("\n", "\r\n", or
\* none on the last line) included.
C21_TerminatorsKept ==
    (EditInRange /\ status = 0) =>
        LET was == OnDisk(old.content)
            now == OnDisk(file)
        IN  /\ Len(now) >= Before + Behind
            /\ SubSeq(now, 1, Before) = SubSeq(was, 1, Before)
            /\ SubSeq(now, Len(now) - Behind + 1, Len(now))
                 = SubSeq(was, Len(was) - Behind + 1, Len(was))

\* C22: an invocation with fewer than two arguments prints the usage message
\* and exits with a non-zero status; no file is read, created or modified.
C22_UsageOnTooFewArguments ==
    (~AtPrompt /\ Len(argv) < 3) =>
        /\ status # 0
        /\ stdout = <<"__doc__", NL>>
        /\ lines = <<>>
        /\ file = old.content
        /\ exists = old.exists

C22_Witness ==
    /\ argv = <<Script, Path>>
    /\ old.exists /\ old.content # <<>>
    /\ status = 1

\* the invocation raises nothing: show, replace, insert and delete need their
\* line numbers and an existing file; append and an unknown word need nothing
Succeeds ==
    IF Word \in {"show", "replace", "insert", "delete"}
    THEN WellFormed /\ old.exists
    ELSE TRUE

\* C23 as stated: every invocation given a file and an action word, whatever
\* the word, reports an outcome on standard output and exits with status 0.
C23_AsStated ==
    (Len(argv) >= 3 /\ status # -1) => (status = 0 /\ stdout # <<>>)

\* C23, amended: an invocation given a file and an action word exits with
\* status 0 exactly when it raises nothing; replace, insert, append and delete
\* have then printed one report line; a failed invocation and an unknown
\* action word print nothing on standard output.
C23_ZeroIffNothingRaised ==
    (Len(argv) >= 3 /\ status # -1) =>
        /\ status = 0 <=> Succeeds
        /\ status # 0 => (status = 1 /\ stdout = <<>>)
        /\ (status = 0 /\ Word \in {"replace", "insert", "append", "delete"}) =>
              (stdout # <<>> /\ Last(stdout) = NL /\ CountNL(stdout) = 1)
        /\ Word \notin {"show", "replace", "insert", "append", "delete"} =>
              stdout = <<>>

C23_Witness ==
    /\ Word = "undo" /\ old.exists /\ old.content # <<>>
    /\ status = 0 /\ stdout = <<>>

\* replace, insert or delete is given fewer line numbers than it needs
MissingLineNumbers ==
    \/ Word \in {"replace", "delete"} /\ Len(argv) < 5
    \/ Word = "insert" /\ Len(argv) < 4

\* C24: replace, insert or delete invoked without their required line-number
\* arguments print the command synopsis and exit with a non-zero status,
\* leaving the file unchanged.
C24_SynopsisOnMissingNumbers ==
    MissingLineNumbers =>
        /\ status # 0
        /\ stdout = <<"__doc__", NL>>
        /\ file = old.content
        /\ exists = old.exists

\* both invocations have ended
BothEnded == \A p \in Procs : procs[p].pc \in {"closed", "failed"}

\* C25: when two invocations of replace, insert or delete run at the same
\* time on one path, under every interleaving of their steps the file ends
\* up holding the complete text of the invocation that wrote last.
C25_LastWriterWins ==
    (BothEnded /\ last_writer # 0) => file = procs[last_writer].buf

\* the report of an insert and of a replace that put n lines into the document
InsertReport(n) ==
    <<"Inserted ">> \o DecStr(n) \o <<" lines after line ">> \o DecStr(A) \o <<NL>>

ReplaceReport(n) ==
    <<"Replaced lines ">> \o DecStr(S) \o <<"-">> \o DecStr(E) \o <<" with ">>
      \o DecStr(n) \o <<" lines", NL>>

\* C26: the line count insert and replace report is the number of lines the
\* document gained: after insert the document on disk is longer by the
\* reported count, after replace(s,e) with 1 <= s <= e <= len(D) its length
\* changed by the reported count minus (e-s+1).
C26_ReportedCountIsSpliced ==
    /\ (RanInsert /\ status = 0) =>
          stdout = InsertReport(Len(R) - Len(D))
    /\ (RanReplace /\ InRange) =>
          stdout = ReplaceReport(Len(R) - Len(D) + (E - S + 1))

\* C27: an edit with in-range arguments of a document in which every line but
\* possibly the last is terminated writes such a line sequence again, so the
\* file re-loads as exactly the sequence that was written.
C27_WellFormedKept ==
    (EditInRange /\ status = 0 /\ AllTerminated(SubSeq(D, 1, Len(D) - 1))) =>
        /\ AllTerminated(SubSeq(lines, 1, Len(lines) - 1))
        /\ R = lines

\* the delete of the range the last replace was given, run on the file the
\* replace started on, and the insert of the replace's text behind line s-1
\* of what that delete leaves
DeleteOfSameRange ==
    DeleteRun(old.content, old.exists,
              <<Script, Path, "delete", Arg(argv, 3), Arg(argv, 4)>>)

InsertAfterDelete ==
    InsertRun(DeleteOfSameRange.file, TRUE,
              <<Script, Path, "insert", DecStr(S - 1), Text>>, <<>>)

\* C28: replace and insert split every supplied text into the same lines, so
\* replace(s,e,text) yields the document that delete(s,e) followed by
\* insert(s-1,text) yields.
C28_SplittingAgrees ==
    /\ (RanInsert /\ status = 0) => new_lines = ReplaceSplit(Text)
    /\ (RanReplace /\ status = 0) => new_lines = InsertSplit(Text)
    /\ (RanReplace /\ InRange) => file = InsertAfterDelete.file

\* C29: with the empty text replace(s,e,"") yields exactly the document that
\* delete(s,e) yields, and insert(a,"") leaves the document unchanged, for
\* all line numbers.
C29_EmptyTextSplicesNothing ==
    /\ (RanReplace /\ Text = <<>>) =>
          /\ status = 0
          /\ new_lines = <<>>
          /\ lines = DeleteOfSameRange.lines
          /\ file = DeleteOfSameRange.file
    /\ (RanInsert /\ Text = <<>>) =>
          /\ status = 0
          /\ new_lines = <<>>
          /\ lines = D
          /\ R = D

C29_Witness ==
    /\ RanInsert /\ Text = <<>> /\ A = 1
    /\ Len(D) = 2 /\ status = 0 /\ file = old.content

\* C30: append on a path that does not exist creates the file, whose content
\* is then exactly the supplied text, and exits with status 0.
C30_AppendCreates ==
    (RanAppend /\ ~old.exists) =>
        /\ status = 0
        /\ exists
        /\ file = AppendText

C30_Witness ==
    /\ RanAppend /\ ~old.exists
    /\ AppendText = <<"a", NL>>
    /\ exists /\ file = <<"a", NL>> /\ status = 0

====
